---- MODULE Spec2Model ----
(***************************************************************************)
(* A model of backend/timetable_generator.py: class TimetableScheduler.    *)
(*                                                                         *)
(* Names.  A subject name is the sequence of its words (the words of the   *)
(* Python string, split at single spaces): "S" is <<"S">> and "S Lab" is   *)
(* <<"S", "Lab">>.  A time-slot label is the sequence of its parts split   *)
(* at '-': "Mon-1" is <<"Mon", "1">>.                                      *)
(*                                                                         *)
(* Dictionaries.  A dict whose iteration order the code depends on         *)
(* (subject_credits, subject_assignments[cls], rooms) is a sequence of     *)
(* <<key, value>> pairs with distinct keys.  The other input dicts are     *)
(* functions on the set of their keys.  The defaultdict indexes of the     *)
(* scheduling state are total functions whose value at an absent key is    *)
(* the default (empty set, empty list, 0, NoEntry, NoSession).               *)
(*                                                                         *)
(* Numbers.  class_priority is a sum of ratios scheduled/required; it is   *)
(* kept as the numerator over the common denominator PriorityDen.  A slot  *)
(* score is kept multiplied by 10 and by PriorityDen, so that every        *)
(* contribution is an integer.                                             *)
(***************************************************************************)
EXTENDS Integers, Sequences, FiniteSets, TLC

VARIABLES
    problem,                \* the arguments of TimetableScheduler(...)
    raised,                 \* the ValueError __init__ raised, or "None"
    pc,                     \* "new", "ready", or the driver's position
    subject_assignments,    \* self.subject_assignments
    subject_order,          \* self.subject_order
    schedule,               \* self.schedule
    teacher_bookings,       \* self.teacher_bookings
    class_bookings,         \* self.class_bookings
    room_bookings,          \* self.room_bookings
    teacher_daily_load,     \* self.teacher_daily_load
    class_subject_time,     \* self.class_subject_time
    teacher_schedule,       \* self.teacher_schedule
    scheduled_counts,       \* self.scheduled_counts
    class_priority,         \* self.class_priority (numerator over PriorityDen)
    lab_room_bookings,      \* self.lab_room_bookings
    backup_state,           \* a dict returned by create_backup_state, or NoBackup
    last,                   \* the last call on the scheduler: its name, its class and what it returned
    unscheduled_classes,    \* generate_timetable: unscheduled_classes
    progress,               \* generate_timetable: progress
    iteration,              \* generate_timetable: iteration
    classes_by_priority,    \* generate_timetable: the classes the for loop has yet to visit
    response                \* what generate_timetable_response returned, or NoResponse

inputVars == <<problem, raised, subject_assignments, subject_order>>
stateVars == <<schedule, teacher_bookings, class_bookings, room_bookings,
               teacher_daily_load, class_subject_time, teacher_schedule,
               scheduled_counts, class_priority, lab_room_bookings>>
driverVars == <<unscheduled_classes, progress, iteration, classes_by_priority>>
vars == <<inputVars, pc, stateVars, backup_state, last, driverVars, response>>

----------------------------------------------------------------------------
(* Strings and containers *)

\* subject.endswith(" Lab")
EndsWithLab(subject) == Len(subject) >= 2 /\ subject[Len(subject)] = "Lab"

\* subject.replace(" Lab", ""): every word "Lab" that follows a space goes
ReplaceLab(subject) ==
    SelectSeq([i \in 1..Len(subject) |-> <<i, subject[i]>>],
              LAMBDA w : w[1] = 1 \/ w[2] # "Lab")

RECURSIVE Words(_)
Words(pairs) == IF pairs = <<>> THEN <<>> ELSE <<Head(pairs)[2]>> \o Words(Tail(pairs))

\* base_subject = subject.replace(" Lab", "")
BaseSubject(subject) == Words(ReplaceLab(subject))

\* f"{subject} Lab"
LabSubject(subject) == Append(subject, "Lab")

\* time_slot.split('-')[0]
DayOf(time_slot) == time_slot[1]

Range(seq) == {seq[i] : i \in 1..Len(seq)}

\* d.get(key, default) on a dict kept as a function
Get(d, key, default) == IF key \in DOMAIN d THEN d[key] ELSE default

\* an insertion-ordered dict: a sequence of <<key, value>>
Keys(od) == [i \in 1..Len(od) |-> od[i][1]]
KeySet(od) == {od[i][1] : i \in 1..Len(od)}
Lookup(od, key) == od[CHOOSE i \in 1..Len(od) : od[i][1] = key][2]
OGet(od, key, default) == IF key \in KeySet(od) THEN Lookup(od, key) ELSE default
\* od[key] = value: a new key goes last, a present key keeps its place
OSet(od, key, value) ==
    IF key \in KeySet(od)
    THEN [i \in 1..Len(od) |-> IF od[i][1] = key THEN <<key, value>> ELSE od[i]]
    ELSE Append(od, <<key, value>>)

RECURSIVE SumSeq(_)
SumSeq(seq) == IF seq = <<>> THEN 0 ELSE Head(seq) + SumSeq(Tail(seq))

RECURSIVE SumSet(_, _)
SumSet(f, keys) ==
    IF keys = {} THEN 0
    ELSE LET k == CHOOSE x \in keys : TRUE IN f[k] + SumSet(f, keys \ {k})

----------------------------------------------------------------------------
(* __init__: validation, expansion of credits, feasibility *)

NoError == "None"

\* validate_inputs: the ValueError it raises, or NoError
validate_inputs(teachers, classes, subjects, rooms, time_slots, class_sizes) ==
    LET bad == {i \in 1..Len(classes) :
                   \/ classes[i] \notin DOMAIN class_sizes
                   \/ class_sizes[classes[i]] <= 0}
        first == CHOOSE i \in bad : \A j \in bad : i <= j
    IN IF teachers = <<>> THEN "At least one teacher is required"
       ELSE IF classes = <<>> THEN "At least one class is required"
       ELSE IF subjects = <<>> THEN "At least one subject is required"
       ELSE IF rooms = <<>> THEN "At least one room is required"
       ELSE IF time_slots = <<>> THEN "At least one time slot is required"
       ELSE IF bad = {} THEN NoError
       ELSE IF classes[first] \notin DOMAIN class_sizes THEN "Class size not specified"
       ELSE "Invalid class size"

\* check_teacher_coverage: the ValueError it raises, or NoError
check_teacher_coverage(p) ==
    LET lab_subjects == {LabSubject(s) : s \in
                            {x \in Range(p.subjects) : OGet(p.subject_credits, x, 0) >= 3}}
        all_subjects == Range(p.subjects) \cup lab_subjects
        subject_coverage(s) ==
            Cardinality({i \in 1..Len(p.teachers) :
                            s \in Get(p.teacher_qualifications, p.teachers[i], {})})
    IN IF \E s \in all_subjects : subject_coverage(s) = 0
       THEN "No qualified teachers available"
       ELSE NoError

\* NeedsLab with the threshold one credit higher
NeedsLabFrom4(credits) == credits >= 4

\* setup_subject_assignments: "if credits >= 3"
NeedsLab(credits) == credits >= 3

\* the body of setup_subject_assignments for one class
RECURSIVE ExpandCredits(_, _)
ExpandCredits(items, bag) ==
    IF items = <<>> THEN bag
    ELSE LET subject == Head(items)[1]
             credits == Head(items)[2]
             withTheory == IF credits > 0 THEN OSet(bag, subject, credits) ELSE bag
             withLab == IF credits > 0 /\ NeedsLab(credits)
                        THEN OSet(withTheory, LabSubject(subject), 1)
                        ELSE withTheory
         IN ExpandCredits(Tail(items), withLab)

\* setup_subject_assignments
setup_subject_assignments(p) ==
    [cls \in Range(p.classes) |-> ExpandCredits(p.subject_credits, <<>>)]

\* validate_feasibility: total_required
TotalRequired(p, assignments) ==
    SumSeq([i \in 1..Len(p.classes) |->
               SumSeq([j \in 1..Len(assignments[p.classes[i]]) |->
                          assignments[p.classes[i]][j][2]])])

\* ExceedsCapacity that also holds when the two are equal
ReachesCapacity(total_required, total_teacher_capacity) ==
    total_required >= total_teacher_capacity

\* validate_feasibility: "if total_required > total_teacher_capacity"
ExceedsCapacity(total_required, total_teacher_capacity) ==
    total_required > total_teacher_capacity

\* validate_feasibility: the ValueError it raises, or NoError
validate_feasibility(p, assignments) ==
    IF ExceedsCapacity(TotalRequired(p, assignments), Len(p.teachers) * Len(p.time_slots))
    THEN "Insufficient teacher capacity"
    ELSE NoError

\* The exception __init__ ends with, or NoError
InitError(p) ==
    LET e1 == validate_inputs(p.teachers, p.classes, p.subjects, p.rooms,
                              p.time_slots, p.class_sizes)
    IN IF e1 # NoError THEN e1
       ELSE LET e2 == check_teacher_coverage(p)
            IN IF e2 # NoError THEN e2
               ELSE validate_feasibility(p, setup_subject_assignments(p))

----------------------------------------------------------------------------
(* setup_subject_order *)

RECURSIVE Flatten(_)
Flatten(seqs) == IF seqs = <<>> THEN <<>> ELSE Head(seqs) \o Flatten(Tail(seqs))

\* topological_sort_subjects: the edges <<from, to>> "Build prerequisite graph" adds, in order
PrerequisiteEdges(p, subjects) ==
    LET ForPrereq(subject, prereq) ==
            (IF prereq \in Range(subjects) THEN << <<prereq, subject>> >> ELSE <<>>)
            \o (IF EndsWithLab(subject) /\ BaseSubject(subject) \in Range(subjects)
                THEN << <<BaseSubject(subject), subject>> >> ELSE <<>>)
        ForSubject(subject) ==
            LET prereqs == Get(p.subject_prerequisites, BaseSubject(subject), <<>>)
            IN Flatten([k \in 1..Len(prereqs) |-> ForPrereq(subject, prereqs[k])])
    IN Flatten([i \in 1..Len(subjects) |-> ForSubject(subjects[i])])

\* topological_sort_subjects: "for neighbor in graph[subject]"
RECURSIVE VisitNeighbors(_, _, _)
VisitNeighbors(neighbors, in_degree, queue) ==
    IF neighbors = <<>> THEN [in_degree |-> in_degree, queue |-> queue]
    ELSE LET n == Head(neighbors)
             deg == [in_degree EXCEPT ![n] = @ - 1]
         IN VisitNeighbors(Tail(neighbors), deg,
                           IF deg[n] = 0 THEN Append(queue, n) ELSE queue)

\* topological_sort_subjects: "while queue"
RECURSIVE Kahn(_, _, _, _)
Kahn(edges, queue, in_degree, result) ==
    IF queue = <<>> THEN result
    ELSE LET subject == Head(queue)
             out == SelectSeq(edges, LAMBDA e : e[1] = subject)
             next == VisitNeighbors([k \in 1..Len(out) |-> out[k][2]], in_degree, Tail(queue))
         IN Kahn(edges, next.queue, next.in_degree, Append(result, subject))

\* topological_sort_subjects that returns the subjects as the bag lists them
InsertionOrder(p, assignments, cls) ==
    IF cls \notin DOMAIN assignments THEN <<>> ELSE Keys(assignments[cls])

\* topological_sort_subjects
topological_sort_subjects(p, assignments, cls) ==
    IF cls \notin DOMAIN assignments THEN <<>>
    ELSE LET subjects == Keys(assignments[cls])
             edges == PrerequisiteEdges(p, subjects)
             in_degree == [s \in Range(subjects) |->
                              Cardinality({k \in 1..Len(edges) : edges[k][2] = s})]
             queue == SelectSeq(subjects, LAMBDA s : in_degree[s] = 0)
             result == Kahn(edges, queue, in_degree, <<>>)
         IN IF Len(result) = Len(subjects) THEN result ELSE subjects

\* setup_subject_order
setup_subject_order(p, assignments) ==
    [cls \in Range(p.classes) |-> topological_sort_subjects(p, assignments, cls)]

----------------------------------------------------------------------------
(* The scheduling state and its primitives *)

\* an absent key of schedule[cls], and of teacher_schedule[teacher]
NoEntry == [subject |-> <<>>, teacher |-> "None", room |-> "None"]
NoSession == <<>>

TeacherSet(p) == Range(p.teachers)
ClassSet(p) == Range(p.classes)
RoomSet(p) == KeySet(p.rooms)
SlotSet(p) == Range(p.time_slots)
DaySet(p) == {DayOf(ts) : ts \in SlotSet(p)}

\* every subject name a call can make a key of an index
SubjectSet(p) ==
    LET base == Range(p.subjects) \cup KeySet(p.subject_credits)
        named == base \cup {LabSubject(s) : s \in base}
                 \cup UNION {p.teacher_qualifications[t] : t \in DOMAIN p.teacher_qualifications}
    IN named \cup {BaseSubject(s) : s \in named}

\* self.rooms[room]
\* RoomInfo that does not read the room: every room is large and flex
UnreadRoom(p, room) == [capacity |-> 1000, type |-> "flex"]

RoomInfo(p, room) == Lookup(p.rooms, room)

\* self.time_slot_index[time_slot]
time_slot_index(p, time_slot) ==
    (CHOOSE i \in 1..Len(p.time_slots) : p.time_slots[i] = time_slot) - 1

\* the denominator class_priority[cls] is kept over
PriorityDen(assignments, cls) ==
    LET RECURSIVE Prod(_)
        Prod(od) == IF od = <<>> THEN 1 ELSE Head(od)[2] * Prod(Tail(od))
    IN Prod(assignments[cls])

\* initialize_tracking_structures, and lab_room_bookings of __init__
EmptyState(p) ==
    [schedule |-> [c \in ClassSet(p) |-> [ts \in SlotSet(p) |-> NoEntry]],
     teacher_bookings |-> [t \in TeacherSet(p) |-> {}],
     class_bookings |-> [c \in ClassSet(p) |-> {}],
     room_bookings |-> [r \in RoomSet(p) |-> {}],
     teacher_daily_load |-> [t \in TeacherSet(p) |-> [d \in DaySet(p) |-> 0]],
     class_subject_time |-> [c \in ClassSet(p) |-> [s \in SubjectSet(p) |-> <<>>]],
     teacher_schedule |-> [t \in TeacherSet(p) |-> [ts \in SlotSet(p) |-> NoSession]],
     scheduled_counts |-> [c \in ClassSet(p) |-> [s \in SubjectSet(p) |-> 0]],
     class_priority |-> [c \in ClassSet(p) |-> 0],
     lab_room_bookings |-> [ts \in SlotSet(p) |-> {}]]

\* the scheduler's current state, as one record
Self ==
    [schedule |-> schedule,
     teacher_bookings |-> teacher_bookings,
     class_bookings |-> class_bookings,
     room_bookings |-> room_bookings,
     teacher_daily_load |-> teacher_daily_load,
     class_subject_time |-> class_subject_time,
     teacher_schedule |-> teacher_schedule,
     scheduled_counts |-> scheduled_counts,
     class_priority |-> class_priority,
     lab_room_bookings |-> lab_room_bookings]

\* Booked with the class's bookings only: two classes may then share a teacher or a room
BookedClassOnly(st, cls, teacher, room, time_slot) ==
    time_slot \in st.class_bookings[cls]

\* Booked without the class's bookings: an occupied cell of the class is then written over
BookedTeacherOrRoom(st, cls, teacher, room, time_slot) ==
    \/ time_slot \in st.teacher_bookings[teacher]
    \/ time_slot \in st.room_bookings[room]

\* is_valid_assignment: "Basic availability constraints"
Booked(st, cls, teacher, room, time_slot) ==
    \/ time_slot \in st.teacher_bookings[teacher]
    \/ time_slot \in st.class_bookings[cls]
    \/ time_slot \in st.room_bookings[room]

\* is_valid_assignment: "Teacher qualifications"
Qualified(p, subject, teacher) ==
    subject \in Get(p.teacher_qualifications, teacher, {})

\* is_valid_assignment: "Room capacity and type constraints", "Room type matching" and
\* "Lab room special handling"; required_type is what the requirements declare for the
\* subject itself, a lab-subject included
RoomFits(p, cls, subject, room) ==
    LET room_capacity == RoomInfo(p, room).capacity
        room_type == RoomInfo(p, room).type
        required_type == Get(p.subject_room_requirements, subject, "theory")
    IN /\ ~ (p.class_sizes[cls] > room_capacity)
       /\ ~ (room_type # "flex" /\ required_type # room_type)
       /\ ~ (EndsWithLab(subject) /\ required_type = "lab" /\ room_type # "lab")

\* DailyLoadReached without the test: a teacher's day is never full
LoadNeverReached(p, st, teacher, time_slot) == FALSE

\* is_valid_assignment: "Teacher daily load constraint"
DailyLoadReached(p, st, teacher, time_slot) ==
    st.teacher_daily_load[teacher][DayOf(time_slot)] >= p.teacher_max_daily_load

\* LabPrerequisiteMet without the test: a lab may come at any time
AnyTimeForLab(p, st, cls, subject, time_slot) == TRUE

\* is_valid_assignment: "Lab prerequisites - lab can only be scheduled after theory"
LabPrerequisiteMet(p, st, cls, subject, time_slot) ==
    LET base_subject == BaseSubject(subject)
        theory_times == st.class_subject_time[cls][base_subject]
    IN EndsWithLab(subject) =>
           /\ theory_times # <<>>
           /\ \E i \in 1..Len(theory_times) :
                  time_slot_index(p, theory_times[i]) < time_slot_index(p, time_slot)

\* is_valid_assignment
is_valid_assignment(p, st, cls, subject, teacher, room, time_slot) ==
    /\ ~ Booked(st, cls, teacher, room, time_slot)
    /\ Qualified(p, subject, teacher)
    /\ RoomFits(p, cls, subject, room)
    /\ ~ DailyLoadReached(p, st, teacher, time_slot)
    /\ LabPrerequisiteMet(p, st, cls, subject, time_slot)

\* sum(scheduled_counts[cls].get(subj, 0) / req for subj, req in subject_assignments[cls].items())
ClassProgress(assignments, counts, cls) ==
    SumSeq([i \in 1..Len(assignments[cls]) |->
               counts[cls][assignments[cls][i][1]]
               * (PriorityDen(assignments, cls) \div assignments[cls][i][2])])

\* schedule_subject: [ok |-> what it returns, st |-> the state it leaves]
schedule_subject(p, assignments, st, cls, subject, teacher, room, time_slot) ==
    IF ~ is_valid_assignment(p, st, cls, subject, teacher, room, time_slot)
    THEN [ok |-> FALSE, st |-> st]
    ELSE LET day == DayOf(time_slot)
             counts == [st.scheduled_counts EXCEPT ![cls][subject] = @ + 1]
         IN [ok |-> TRUE,
             st |-> [schedule |->
                        [st.schedule EXCEPT ![cls][time_slot] =
                            [subject |-> subject, teacher |-> teacher, room |-> room]],
                     teacher_bookings |->
                        [st.teacher_bookings EXCEPT ![teacher] = @ \cup {time_slot}],
                     class_bookings |->
                        [st.class_bookings EXCEPT ![cls] = @ \cup {time_slot}],
                     room_bookings |->
                        [st.room_bookings EXCEPT ![room] = @ \cup {time_slot}],
                     scheduled_counts |-> counts,
                     teacher_daily_load |->
                        [st.teacher_daily_load EXCEPT ![teacher][day] = @ + 1],
                     class_subject_time |->
                        [st.class_subject_time EXCEPT ![cls][subject] = Append(@, time_slot)],
                     teacher_schedule |->
                        [st.teacher_schedule EXCEPT ![teacher][time_slot] = <<cls, subject>>],
                     class_priority |->
                        [st.class_priority EXCEPT ![cls] = ClassProgress(assignments, counts, cls)],
                     lab_room_bookings |->
                        IF EndsWithLab(subject) /\ RoomInfo(p, room).type = "lab"
                        THEN [st.lab_room_bookings EXCEPT ![time_slot] = @ \cup {room}]
                        ELSE st.lab_room_bookings]]

\* RemoveFirst that removes nothing
KeepAll(seq, x) == seq

\* list.remove(x): the first occurrence goes
RemoveFirst(seq, x) ==
    IF x \notin Range(seq) THEN seq
    ELSE LET k == CHOOSE i \in 1..Len(seq) : seq[i] = x /\ \A j \in 1..(i-1) : seq[j] # x
         IN SubSeq(seq, 1, k - 1) \o SubSeq(seq, k + 1, Len(seq))

\* unschedule_subject that empties the timetable of every class
unschedule_every_class(p, assignments, st, cls, time_slot) ==
    [ok |-> TRUE, st |-> EmptyState(p)]

\* unschedule_subject: [ok |-> what it returns, st |-> the state it leaves]
unschedule_subject(p, assignments, st, cls, time_slot) ==
    IF st.schedule[cls][time_slot] = NoEntry
    THEN [ok |-> FALSE, st |-> st]
    ELSE LET entry == st.schedule[cls][time_slot]
             subject == entry.subject
             teacher == entry.teacher
             room == entry.room
             day == DayOf(time_slot)
             counts == [st.scheduled_counts EXCEPT ![cls][subject] = @ - 1]
         IN [ok |-> TRUE,
             st |-> [teacher_bookings |->
                        [st.teacher_bookings EXCEPT ![teacher] = @ \ {time_slot}],
                     class_bookings |->
                        [st.class_bookings EXCEPT ![cls] = @ \ {time_slot}],
                     room_bookings |->
                        [st.room_bookings EXCEPT ![room] = @ \ {time_slot}],
                     scheduled_counts |-> counts,
                     teacher_daily_load |->
                        [st.teacher_daily_load EXCEPT ![teacher][day] = @ - 1],
                     class_subject_time |->
                        [st.class_subject_time EXCEPT ![cls][subject] = RemoveFirst(@, time_slot)],
                     teacher_schedule |->
                        [st.teacher_schedule EXCEPT ![teacher][time_slot] = NoSession],
                     class_priority |->
                        [st.class_priority EXCEPT ![cls] = ClassProgress(assignments, counts, cls)],
                     lab_room_bookings |->
                        IF EndsWithLab(subject) /\ RoomInfo(p, room).type = "lab"
                        THEN [st.lab_room_bookings EXCEPT ![time_slot] = @ \ {room}]
                        ELSE st.lab_room_bookings,
                     schedule |->
                        [st.schedule EXCEPT ![cls][time_slot] = NoEntry]]]

----------------------------------------------------------------------------
(* Scoring and the placement search *)

\* sorted(seq, key=...): Python's sort is stable; key is a function on the elements
RECURSIVE StableSort(_, _)
StableSort(seq, key) ==
    IF seq = <<>> THEN <<>>
    ELSE LET x == seq[Len(seq)]
             front == StableSort(SubSeq(seq, 1, Len(seq) - 1), key)
             k == Cardinality({i \in 1..Len(front) : key[front[i]] <= key[x]})
         IN SubSeq(front, 1, k) \o <<x>> \o SubSeq(front, k + 1, Len(front))

\* sum(self.teacher_daily_load[teacher].values())
TeacherLoad(st, teacher) ==
    SumSet(st.teacher_daily_load[teacher], DOMAIN st.teacher_daily_load[teacher])

\* what one unit of score is worth in ScaledScore
ScoreScale(assignments, cls) == 10 * PriorityDen(assignments, cls)

\* calculate_slot_score, times ScoreScale; the subject is a key of subject_assignments[cls]
calculate_slot_score(p, assignments, st, cls, subject, teacher, room, time_slot, prefer_consecutive) ==
    LET den == PriorityDen(assignments, cls)
        existing_times == st.class_subject_time[cls][subject]
        current_idx == time_slot_index(p, time_slot)
        Abs(n) == IF n < 0 THEN -n ELSE n
        dist == {Abs(current_idx - time_slot_index(p, existing_times[i])) :
                    i \in 1..Len(existing_times)}
        min_distance == CHOOSE d \in dist : \A e \in dist : d <= e
        consecutive == IF prefer_consecutive /\ existing_times # <<>>
                       THEN IF min_distance = 1 THEN 10
                            ELSE IF min_distance <= 3 THEN 5 ELSE 0
                       ELSE 0
        teacher_load == TeacherLoad(st, teacher)
        daily_load == st.teacher_daily_load[teacher][DayOf(time_slot)]
        unmet == IF st.scheduled_counts[cls][subject] < Lookup(assignments[cls], subject)
                 THEN 20 ELSE 0
        lab == IF EndsWithLab(subject) /\ RoomInfo(p, room).type = "lab" THEN 50 ELSE 0
    IN consecutive * 10 * den
       + (10 - teacher_load) * 5 * den
       + (p.teacher_max_daily_load - daily_load) * 2 * den
       + unmet * 10 * den
       + lab * 10 * den
       + (den - st.class_priority[cls]) * 30 * 10

\* get_qualified_teachers; teacher_availability[t] is set(time_slots) for every teacher
get_qualified_teachers(p, st, subject) ==
    LET qualified == SelectSeq(p.teachers,
                         LAMBDA t : subject \in Get(p.teacher_qualifications, t, {}))
    IN StableSort(qualified, [t \in Range(qualified) |-> TeacherLoad(st, t)])

\* find_available_slot: required_type
RequiredType(p, subject) ==
    IF EndsWithLab(subject) THEN "lab"
    ELSE Get(p.subject_room_requirements, subject, "theory")

\* find_available_slot: suitable_rooms
suitable_rooms(p, cls, subject) ==
    LET names == Keys(p.rooms)
        fit == SelectSeq(names,
                   LAMBDA r : /\ RoomInfo(p, r).capacity >= p.class_sizes[cls]
                              /\ \/ RoomInfo(p, r).type = "flex"
                                 \/ RoomInfo(p, r).type = RequiredType(p, subject))
    IN StableSort(fit, [r \in Range(fit) |-> RoomInfo(p, r).capacity])

\* the results of random.sample(seq, len(seq)): every order of seq
RECURSIVE Perms(_)
Perms(seq) ==
    IF seq = <<>> THEN {<<>>}
    ELSE UNION {{<<seq[i]>> \o rest :
                    rest \in Perms(SubSeq(seq, 1, i - 1) \o SubSeq(seq, i + 1, Len(seq)))}
                : i \in 1..Len(seq)}

NotFound == [kind |-> "None"]

\* find_available_slot: the (time_slot, room) pairs that pass the lab-room skip and
\* is_valid_assignment, each with the score calculate_slot_score gives it, listed by
\* time_slots and then suitable_rooms; both tests and the score read the state only
ScoredCandidates(p, assignments, st, cls, subject, teacher, prefer) ==
    LET rooms == suitable_rooms(p, cls, subject)
        slots == p.time_slots
        all == [k \in 1..(Len(slots) * Len(rooms)) |->
                   LET ts == slots[((k - 1) \div Len(rooms)) + 1]
                       room == rooms[((k - 1) % Len(rooms)) + 1]
                       ok == /\ ~ (RoomInfo(p, room).type = "lab"
                                   /\ Cardinality(st.lab_room_bookings[ts]) >= 1)
                             /\ is_valid_assignment(p, st, cls, subject, teacher, room, ts)
                   IN [time_slot |-> ts, room |-> room, ok |-> ok,
                       score |-> IF ok /\ subject \in KeySet(assignments[cls])
                                 THEN calculate_slot_score(p, assignments, st, cls, subject,
                                                           teacher, room, ts, prefer)
                                 ELSE 0]]
    IN SelectSeq(all, LAMBDA c : c.ok)

\* find_available_slot: the best_slot / best_score loop over the candidates
RECURSIVE BestSlot(_, _, _)
BestSlot(cands, best_slot, best_score) ==
    IF cands = <<>> THEN best_slot
    ELSE LET c == Head(cands)
         IN IF c.score > best_score
            THEN BestSlot(Tail(cands),
                          [kind |-> "slot", time_slot |-> c.time_slot, room |-> c.room],
                          c.score)
            ELSE BestSlot(Tail(cands), best_slot, best_score)

\* find_available_slot once the candidates are scored, for the order slots that
\* random.sample drew: a slot, NotFound, or the KeyError calculate_slot_score raises
\* for a subject the class does not require
FindAmong(p, assignments, cls, subject, scored, slots) ==
    LET cands == Flatten([i \in 1..Len(slots) |->
                             SelectSeq(scored, LAMBDA c : c.time_slot = slots[i])])
    IN IF cands = <<>> THEN NotFound
       ELSE IF subject \notin KeySet(assignments[cls]) THEN [kind |-> "KeyError"]
       ELSE BestSlot(cands, NotFound, (-1) * ScoreScale(assignments, cls))

\* find_available_slot, for the order slots that random.sample drew
find_available_slot(p, assignments, st, cls, subject, teacher, prefer, slots) ==
    FindAmong(p, assignments, cls, subject,
              ScoredCandidates(p, assignments, st, cls, subject, teacher, prefer), slots)

\* every result find_available_slot can return, over the orders random.sample can draw
FoundSlots(p, assignments, st, cls, subject, teacher, prefer) ==
    LET scored == ScoredCandidates(p, assignments, st, cls, subject, teacher, prefer)
    IN {FindAmong(p, assignments, cls, subject, scored, slots) : slots \in Perms(p.time_slots)}

\* find_available_slot: the default of prefer_consecutive, which every caller leaves
DefaultPreferConsecutive == TRUE

\* the scored candidates of find_available_slot(cls, subject, teacher) as
\* generate_timetable and resolve_conflicts_aggressive call it
CallerCandidates(p, assignments, st, cls, subject, teacher) ==
    ScoredCandidates(p, assignments, st, cls, subject, teacher, DefaultPreferConsecutive)

\* the loop "for teacher in qualified_teachers: slot_info = find_available_slot(...);
\* if slot_info: if schedule_subject(...): break" of generate_timetable and of
\* resolve_conflicts_aggressive: every [ret, st] it can end with
RECURSIVE TryTeachers(_, _, _, _, _, _)
TryTeachers(p, assignments, st, cls, subject, teachers) ==
    IF teachers = <<>> THEN {[ret |-> "False", st |-> st]}
    ELSE UNION {
        IF slot_info.kind = "KeyError" THEN {[ret |-> "KeyError", st |-> st]}
        ELSE IF slot_info.kind = "None"
        THEN TryTeachers(p, assignments, st, cls, subject, Tail(teachers))
        ELSE LET done == schedule_subject(p, assignments, st, cls, subject, Head(teachers),
                                          slot_info.room, slot_info.time_slot)
             IN IF done.ok THEN {[ret |-> "True", st |-> done.st]}
                ELSE TryTeachers(p, assignments, st, cls, subject, Tail(teachers))
        : slot_info \in FoundSlots(p, assignments, st, cls, subject, Head(teachers),
                                   DefaultPreferConsecutive)}

----------------------------------------------------------------------------
(* Repair *)

\* create_backup_state whose dict holds no lab room for any slot
backup_without_lab_rooms(st) ==
    [schedule |-> st.schedule,
     teacher_bookings |-> st.teacher_bookings,
     class_bookings |-> st.class_bookings,
     room_bookings |-> st.room_bookings,
     scheduled_counts |-> st.scheduled_counts,
     teacher_daily_load |-> st.teacher_daily_load,
     class_subject_time |-> st.class_subject_time,
     teacher_schedule |-> st.teacher_schedule,
     lab_room_bookings |-> [ts \in DOMAIN st.lab_room_bookings |-> {}],
     class_priority |-> st.class_priority]

\* create_backup_state: a dict holding a deep copy of each of the ten structures
create_backup_state(st) ==
    [schedule |-> st.schedule,
     teacher_bookings |-> st.teacher_bookings,
     class_bookings |-> st.class_bookings,
     room_bookings |-> st.room_bookings,
     scheduled_counts |-> st.scheduled_counts,
     teacher_daily_load |-> st.teacher_daily_load,
     class_subject_time |-> st.class_subject_time,
     teacher_schedule |-> st.teacher_schedule,
     lab_room_bookings |-> st.lab_room_bookings,
     class_priority |-> st.class_priority]

\* restore_backup_state that leaves class_priority as it is
restore_all_but_priority(st, backup) ==
    [schedule |-> backup.schedule,
     teacher_bookings |-> backup.teacher_bookings,
     class_bookings |-> backup.class_bookings,
     room_bookings |-> backup.room_bookings,
     scheduled_counts |-> backup.scheduled_counts,
     teacher_daily_load |-> backup.teacher_daily_load,
     class_subject_time |-> backup.class_subject_time,
     teacher_schedule |-> backup.teacher_schedule,
     lab_room_bookings |-> backup.lab_room_bookings,
     class_priority |-> st.class_priority]

\* restore_backup_state: the state it leaves, every structure taken from the dict
restore_backup_state(st, backup) ==
    [schedule |-> backup.schedule,
     teacher_bookings |-> backup.teacher_bookings,
     class_bookings |-> backup.class_bookings,
     room_bookings |-> backup.room_bookings,
     scheduled_counts |-> backup.scheduled_counts,
     teacher_daily_load |-> backup.teacher_daily_load,
     class_subject_time |-> backup.class_subject_time,
     teacher_schedule |-> backup.teacher_schedule,
     lab_room_bookings |-> backup.lab_room_bookings,
     class_priority |-> backup.class_priority]

\* the dropped field of an outcome of resolve_conflicts_aggressive that has not called
\* restore_backup_state
Kept == [kind |-> "kept"]

\* RescheduleMoved that places no moved subject again and reports success
RescheduleNone(p, assignments, backup, st, cls, moved) ==
    {[ret |-> "True", st |-> st, dropped |-> Kept]}

\* resolve_conflicts_aggressive: "Try to reschedule all moved subjects".  An outcome is
\* [ret, st, dropped]: dropped is what the structures held that restore_backup_state
\* replaced by the backup's
RECURSIVE RescheduleMoved(_, _, _, _, _, _)
RescheduleMoved(p, assignments, backup, st, cls, moved) ==
    IF moved = <<>> THEN {[ret |-> "True", st |-> st, dropped |-> Kept]}
    ELSE UNION {
        IF o.ret = "KeyError" THEN {[ret |-> "KeyError", st |-> o.st, dropped |-> Kept]}
        ELSE IF o.ret = "False"
        THEN {[ret |-> "False", st |-> restore_backup_state(o.st, backup), dropped |-> o.st]}
        ELSE RescheduleMoved(p, assignments, backup, o.st, cls, Tail(moved))
        : o \in TryTeachers(p, assignments, st, cls, Head(moved)[1],
                            get_qualified_teachers(p, st, Head(moved)[1]))}

\* resolve_conflicts_aggressive: the "for attempt in range(min(3, len(scheduled_slots)))"
\* loop from index attempt (0-based) on.  scheduled_slots is shuffled, so its entry at
\* index attempt is any of the slots not yet visited: unvisited holds those, and n is
\* len(scheduled_slots)
RECURSIVE RepairLoop(_, _, _, _, _, _, _, _, _, _)
RepairLoop(p, assignments, backup, st, cls, subject, unvisited, n, attempt, moved_subjects) ==
    LET bound == IF n < 3 THEN n ELSE 3
    IN IF attempt >= bound
       THEN {[ret |-> "False", st |-> restore_backup_state(st, backup), dropped |-> st]}
       ELSE UNION {
           LET entry == st.schedule[cls][time_slot]
               un == unschedule_subject(p, assignments, st, cls, time_slot)
               moved == Append(moved_subjects, <<entry.subject, entry.teacher, time_slot>>)
               rest == unvisited \ {time_slot}
           IN IF entry = NoEntry
              THEN RepairLoop(p, assignments, backup, st, cls, subject, rest, n,
                              attempt + 1, moved_subjects)
              ELSE IF EndsWithLab(entry.subject) /\ ~ EndsWithLab(subject)
              THEN RepairLoop(p, assignments, backup, st, cls, subject, rest, n,
                              attempt + 1, moved_subjects)
              ELSE UNION {
                  IF o.ret = "KeyError"
                  THEN {[ret |-> "KeyError", st |-> o.st, dropped |-> Kept]}
                  ELSE IF o.ret = "True"
                  THEN RescheduleMoved(p, assignments, backup, o.st, cls, moved)
                  ELSE RepairLoop(p, assignments, backup, o.st, cls, subject, rest, n,
                                  attempt + 1, moved)
                  : o \in TryTeachers(p, assignments, un.st, cls, subject,
                                      get_qualified_teachers(p, un.st, subject))}
           : time_slot \in unvisited}

\* list(self.schedule[cls].keys())
ScheduledSlots(st, cls) ==
    {ts \in DOMAIN st.schedule[cls] : st.schedule[cls][ts] # NoEntry}

\* resolve_conflicts_aggressive: every [ret, st, dropped] it can end with; ret is "KeyError"
\* when calculate_slot_score raises in it, which leaves the state as it then is
resolve_conflicts_aggressive(p, assignments, st, cls, subject) ==
    RepairLoop(p, assignments, create_backup_state(st), st, cls, subject,
               ScheduledSlots(st, cls), Cardinality(ScheduledSlots(st, cls)), 0, <<>>)

----------------------------------------------------------------------------
(* generate_timetable *)

MaxIterations == 1000

\* the orders sorted(unscheduled_classes, key=class_priority) can give: a stable sort
\* of the set's iteration order, which is any order
SortedByPriority(st, classes) ==
    LET n == Cardinality(classes)
    IN {f \in [1..n -> classes] :
           /\ \A i, j \in 1..n : i # j => f[i] # f[j]
           /\ \A i, j \in 1..n : i < j => st.class_priority[f[i]] <= st.class_priority[f[j]]}

\* WalkSubjects that places nothing and reports progress
WalkSubjectsIdle(p, assignments, order, st, cls, prog, k) ==
    {[st |-> st, progress |-> TRUE, exhausted |-> FALSE]}

\* WalkSubjects without the test "if scheduled < required"
RECURSIVE WalkSubjectsUncounted(_, _, _, _, _, _, _)
WalkSubjectsUncounted(p, assignments, order, st, cls, prog, k) ==
    IF k > Len(order[cls]) THEN {[st |-> st, progress |-> prog, exhausted |-> TRUE]}
    ELSE LET subject == order[cls][k]
             qualified_teachers == get_qualified_teachers(p, st, subject)
         IN IF subject \notin KeySet(assignments[cls])
            THEN WalkSubjectsUncounted(p, assignments, order, st, cls, prog, k + 1)
            ELSE IF qualified_teachers = <<>>
            THEN WalkSubjectsUncounted(p, assignments, order, st, cls, prog, k + 1)
            ELSE UNION {
                IF o.ret = "True" \/ prog
                THEN {[st |-> o.st, progress |-> TRUE, exhausted |-> FALSE]}
                ELSE WalkSubjectsUncounted(p, assignments, order, o.st, cls, prog, k + 1)
                : o \in TryTeachers(p, assignments, st, cls, subject, qualified_teachers)}

\* the body of "for cls in classes_by_priority", from subject number k of ordered_subjects
\* on: every [st, progress, exhausted] it can end with; exhausted is the for loop's else
RECURSIVE WalkSubjects(_, _, _, _, _, _, _)
WalkSubjects(p, assignments, order, st, cls, prog, k) ==
    IF k > Len(order[cls]) THEN {[st |-> st, progress |-> prog, exhausted |-> TRUE]}
    ELSE LET subject == order[cls][k]
             required == Lookup(assignments[cls], subject)
             scheduled == st.scheduled_counts[cls][subject]
             qualified_teachers == get_qualified_teachers(p, st, subject)
         IN IF subject \notin KeySet(assignments[cls])
            THEN WalkSubjects(p, assignments, order, st, cls, prog, k + 1)
            ELSE IF ~ (scheduled < required)
            THEN WalkSubjects(p, assignments, order, st, cls, prog, k + 1)
            ELSE IF qualified_teachers = <<>>
            THEN WalkSubjects(p, assignments, order, st, cls, prog, k + 1)
            ELSE UNION {
                IF o.ret = "True" \/ prog
                THEN {[st |-> o.st, progress |-> TRUE, exhausted |-> FALSE]}
                ELSE WalkSubjects(p, assignments, order, o.st, cls, prog, k + 1)
                : o \in TryTeachers(p, assignments, st, cls, subject, qualified_teachers)}

----------------------------------------------------------------------------
(* generate_timetable_response and verify_constraints *)

\* an entry of the list verify_constraints returns
Violation(kind, cls, who, subject, scheduled, required) ==
    [kind |-> kind, cls |-> cls, who |-> who, subject |-> subject,
     scheduled |-> scheduled, required |-> required]

\* "All constraints satisfied!"
Satisfied == [kind |-> "All constraints satisfied!"]

\* CountErrors that finds none
NoCountErrors(p, assignments, st) == <<>>

\* verify_constraints: "Check all subjects are scheduled required number of times"
CountErrors(p, assignments, st) ==
    Flatten([i \in 1..Len(p.classes) |->
        LET cls == p.classes[i]
            bag == assignments[cls]
            all == [j \in 1..Len(bag) |->
                       Violation("count", cls, "None", bag[j][1],
                                 st.scheduled_counts[cls][bag[j][1]], bag[j][2])]
        IN SelectSeq(all, LAMBDA e : e.scheduled # e.required)])

\* verify_constraints: one entry per assignment of a class that is in failing, a set
\* of <<class, time slot>>.  The code
\* takes the assignments of a class in the order they were made, which the state does
\* not keep: they are taken by time slot here
EntryErrors(p, st, kind, failing) ==
    Flatten([i \in 1..Len(p.classes) |->
        LET cls == p.classes[i]
            all == [j \in 1..Len(p.time_slots) |->
                       LET entry == st.schedule[cls][p.time_slots[j]]
                       IN [e |-> Violation(kind, cls,
                                           IF kind = "capacity" THEN entry.room
                                           ELSE entry.teacher,
                                           entry.subject, 0, 0),
                           bad |-> entry # NoEntry /\ <<cls, p.time_slots[j]>> \in failing]]
            bad == SelectSeq(all, LAMBDA x : x.bad)
        IN [j \in 1..Len(bad) |-> bad[j].e]])

\* verify_constraints: "Check teacher qualifications"
QualificationErrors(p, st) ==
    EntryErrors(p, st, "qualification",
                {<<cls, ts>> \in ClassSet(p) \X SlotSet(p) :
                    LET entry == st.schedule[cls][ts]
                    IN entry.subject \notin Get(p.teacher_qualifications, entry.teacher, {})})

\* verify_constraints: "Check room capacity"
CapacityErrors(p, st) ==
    EntryErrors(p, st, "capacity",
                {<<cls, ts>> \in ClassSet(p) \X SlotSet(p) :
                    /\ st.schedule[cls][ts] # NoEntry
                    /\ p.class_sizes[cls] > RoomInfo(p, st.schedule[cls][ts].room).capacity})

\* verify_constraints: "Check teacher conflicts": a teacher whose list of slots holds
\* a slot twice
ConflictErrors(p, st) ==
    LET conflicting(teacher) ==
            \E c1, c2 \in ClassSet(p), ts \in SlotSet(p) :
                /\ c1 # c2
                /\ st.schedule[c1][ts] # NoEntry /\ st.schedule[c1][ts].teacher = teacher
                /\ st.schedule[c2][ts] # NoEntry /\ st.schedule[c2][ts].teacher = teacher
        bad == SelectSeq(p.teachers, conflicting)
    IN [j \in 1..Len(bad) |-> Violation("conflict", "None", bad[j], <<>>, 0, 0)]

\* verify_constraints: "Check lab prerequisites": a lab-subject whose base subject
\* has a list in class_subject_time with no earlier slot in it.  A list that is absent
\* gives no entry; absent and empty are one here, and a list generate_timetable has
\* made is never empty
LabOrderErrors(p, st) ==
    EntryErrors(p, st, "lab before theory",
                {<<cls, ts>> \in ClassSet(p) \X SlotSet(p) :
                    LET entry == st.schedule[cls][ts]
                    IN /\ entry # NoEntry
                       /\ EndsWithLab(entry.subject)
                       /\ LET theory_times ==
                                  st.class_subject_time[cls][BaseSubject(entry.subject)]
                          IN /\ theory_times # <<>>
                             /\ ~ \E k \in 1..Len(theory_times) :
                                     time_slot_index(p, theory_times[k])
                                         < time_slot_index(p, ts)})

\* verify_constraints
verify_constraints(p, assignments, st) ==
    LET errors == CountErrors(p, assignments, st) \o QualificationErrors(p, st)
                  \o CapacityErrors(p, st) \o ConflictErrors(p, st) \o LabOrderErrors(p, st)
    IN IF errors # <<>> THEN errors ELSE <<Satisfied>>

\* None in response["schedule"]
Null == [null |-> TRUE]

\* ResponseCell that is always None
ResponseCellNull(st, cls, time_slot) == Null

\* generate_timetable_response: response["schedule"][cls][time_slot]
ResponseCell(st, cls, time_slot) ==
    IF st.schedule[cls][time_slot] # NoEntry
    THEN [subject |-> st.schedule[cls][time_slot].subject,
          teacher |-> st.schedule[cls][time_slot].teacher,
          room |-> st.schedule[cls][time_slot].room]
    ELSE Null

\* generate_timetable_response; success_rate is the fraction num/den
generate_timetable_response(p, assignments, st) ==
    LET pairs == Flatten([i \in 1..Len(p.classes) |->
                     [j \in 1..Len(assignments[p.classes[i]]) |->
                         [required |-> assignments[p.classes[i]][j][2],
                          scheduled |-> st.scheduled_counts[p.classes[i]]
                                                           [assignments[p.classes[i]][j][1]]]]])
        total_required == SumSeq([k \in 1..Len(pairs) |-> pairs[k].required])
        total_scheduled == SumSeq([k \in 1..Len(pairs) |-> pairs[k].scheduled])
    IN [schedule |-> [cls \in ClassSet(p) |->
                         [ts \in SlotSet(p) |-> ResponseCell(st, cls, ts)]],
        statistics |->
            [total_required |-> total_required,
             total_scheduled |-> total_scheduled,
             success_rate |-> IF total_required > 0
                              THEN [num |-> total_scheduled * 100, den |-> total_required]
                              ELSE [num |-> 0, den |-> 1],
             teacher_utilization |->
                 [i \in 1..Len(p.teachers) |->
                     [name |-> p.teachers[i],
                      total_sessions |-> TeacherLoad(st, p.teachers[i])]]],
        constraints |-> verify_constraints(p, assignments, st)]

----------------------------------------------------------------------------
(* Problem instances *)

S == <<"S">>
P == <<"P">>
Q == <<"Q">>
SLab == <<"S", "Lab">>
Week == << <<"Mon", "1">>, <<"Mon", "2">>, <<"Tue", "1">>, <<"Tue", "2">>, <<"Wed", "1">> >>

NumSlots == 3
MaxDailyLoad == 2
MaxCredits == 3

Rooms == << <<"R", [capacity |-> 30, type |-> "theory"]>>,
            <<"F", [capacity |-> 20, type |-> "flex"]>>,
            <<"L", [capacity |-> 30, type |-> "lab"]>> >>

Sizes == [c \in {"A", "B"} |-> IF c = "A" THEN 20 ELSE 30]

\* classes that need S three times and S Lab once, two teachers of S, one of them also
\* of S Lab, and a third teacher with no entry in teacher_qualifications
PrimitiveProblem(classes, cap) ==
    [teachers |-> <<"T1", "T2", "T3">>,
     classes |-> classes,
     subjects |-> <<S>>,
     rooms |-> Rooms,
     time_slots |-> SubSeq(Week, 1, NumSlots),
     subject_credits |-> << <<S, 3>> >>,
     teacher_qualifications |-> [t \in {"T1", "T2"} |-> IF t = "T1" THEN {S, SLab} ELSE {S}],
     subject_room_requirements |-> [s \in {SLab} |-> "lab"],
     subject_prerequisites |-> <<>>,
     class_sizes |-> Sizes,
     teacher_max_daily_load |-> cap,
     consecutive_preferred |-> TRUE]

PrimitiveProblems == {PrimitiveProblem(<<"A", "B">>, MaxDailyLoad - 1)}

\* two classes, two lab rooms L and M, and two teachers of S and S Lab
LabProblems ==
    {[PrimitiveProblem(<<"A", "B">>, MaxDailyLoad) EXCEPT
        !.teachers = <<"T1", "T2">>,
        !.rooms = Rooms \o << <<"M", [capacity |-> 30, type |-> "lab"]>> >>,
        !.time_slots = SubSeq(Week, 1, NumSlots - 1),
        !.subject_credits = << <<S, 1>> >>,
        !.teacher_qualifications = [t \in {"T1", "T2"} |-> {S, SLab}]]}

\* two classes, two slots, a theory room and a lab room; T3 and T4 teach nothing and
\* are there for the capacity test of validate_feasibility
SnapshotProblems ==
    {[PrimitiveProblem(<<"A", "B">>, cap) EXCEPT
        !.teachers = <<"T1", "T2", "T3", "T4">>,
        !.rooms = << Rooms[1], Rooms[3] >>,
        !.time_slots = SubSeq(Week, 1, NumSlots - 1)] : cap \in 1..MaxDailyLoad}

\* the problems the driver is run on: S and P with every number of credits, one class
\* or two, no room kind declared or lab for S Lab or lab for S and S Lab, P before S
\* or no prerequisite
DriverProblems ==
    {[teachers |-> <<"T1", "T2">>,
      classes |-> classes,
      subjects |-> <<S, P>>,
      rooms |-> Rooms,
      time_slots |-> SubSeq(Week, 1, NumSlots + 1),
      subject_credits |-> << <<S, cs>>, <<P, cp>> >>,
      teacher_qualifications |-> [t \in {"T1", "T2"} |-> IF t = "T1" THEN {S, SLab, P} ELSE {S}],
      subject_room_requirements |-> reqs,
      subject_prerequisites |-> prereqs,
      class_sizes |-> Sizes,
      teacher_max_daily_load |-> MaxDailyLoad,
      consecutive_preferred |-> TRUE]
     : classes \in {<<"A">>, <<"A", "B">>},
       cs \in 0..MaxCredits, cp \in 0..(MaxCredits - 1),
       reqs \in {<<>>, [s \in {SLab} |-> "lab"], [s \in {S, SLab} |-> "lab"]},
       prereqs \in {<<>>, [s \in {S} |-> <<P>>]}}

\* one teacher of S, P and Q, one class, S with one or two credits, P and Q with one,
\* slots on two days, consecutive sessions preferred or not
ScoreProblems ==
    {[teachers |-> <<"T1">>,
      classes |-> <<"A">>,
      subjects |-> <<S, P, Q>>,
      rooms |-> Rooms,
      time_slots |-> SubSeq(Week, 1, NumSlots + 1),
      subject_credits |-> << <<S, cs>>, <<P, 1>>, <<Q, 1>> >>,
      teacher_qualifications |-> [t \in {"T1"} |-> {S, P, Q}],
      subject_room_requirements |-> <<>>,
      subject_prerequisites |-> <<>>,
      class_sizes |-> Sizes,
      teacher_max_daily_load |-> MaxDailyLoad,
      consecutive_preferred |-> preferred]
     : cs \in 1..(MaxCredits - 1), preferred \in BOOLEAN}

\* one teacher T of S, one class C of 20, S with 3 credits, a theory room and a lab
\* room of 30, the slots Mon-1 and Mon-2
Scenario2 ==
    [teachers |-> <<"T">>,
     classes |-> <<"C">>,
     subjects |-> <<S>>,
     rooms |-> << <<"R", [capacity |-> 30, type |-> "theory"]>>,
                  <<"L", [capacity |-> 30, type |-> "lab"]>> >>,
     time_slots |-> << <<"Mon", "1">>, <<"Mon", "2">> >>,
     subject_credits |-> << <<S, 3>> >>,
     teacher_qualifications |-> [t \in {"T"} |-> {S}],
     subject_room_requirements |-> <<>>,
     subject_prerequisites |-> <<>>,
     class_sizes |-> [c \in {"C"} |-> 20],
     teacher_max_daily_load |-> 5,
     consecutive_preferred |-> TRUE]

\* a subject no problem lists
Z == <<"Z">>

\* the prerequisite lists a subject is given: none, one subject, its own lab-subject
\* or S Lab, a subject that is not listed, or two subjects
PrerequisiteLists == {<<>>, <<S>>, <<P>>, <<Q>>, <<SLab>>, <<Z>>, <<P, Q>>}

\* one class that needs S, P and Q, each with 0, 1 or MaxCredits credits, and every
\* choice of prerequisite lists for the three
OrderProblems ==
    {[teachers |-> <<"T1", "T2", "T3", "T4">>,
      classes |-> <<"A">>,
      subjects |-> <<S, P, Q>>,
      rooms |-> Rooms,
      time_slots |-> SubSeq(Week, 1, NumSlots),
      subject_credits |-> << <<S, credits[1]>>, <<P, credits[2]>>, <<Q, credits[3]>> >>,
      teacher_qualifications |->
          [t \in {"T1"} |-> {S, P, Q, SLab, LabSubject(P), LabSubject(Q)}],
      subject_room_requirements |-> <<>>,
      subject_prerequisites |-> [s \in {S, P, Q} |->
                                    IF s = S THEN lists[1] ELSE IF s = P THEN lists[2]
                                    ELSE lists[3]],
      class_sizes |-> Sizes,
      teacher_max_daily_load |-> 5,
      consecutive_preferred |-> TRUE]
     : credits \in [1..3 -> {0, 1, MaxCredits}],
       lists \in [1..3 -> PrerequisiteLists]}

\* the arguments __init__ is checked on, valid and invalid
RawProblems ==
    {[teachers |-> teachers,
      classes |-> classes,
      subjects |-> subjects,
      rooms |-> rooms,
      time_slots |-> SubSeq(Week, 1, n),
      subject_credits |-> credits,
      teacher_qualifications |-> quals,
      subject_room_requirements |-> <<>>,
      subject_prerequisites |-> <<>>,
      class_sizes |-> sizes,
      teacher_max_daily_load |-> 5,
      consecutive_preferred |-> TRUE]
     : teachers \in {<<>>, <<"T1">>, <<"T1", "T2">>},
       classes \in {<<>>, <<"A">>, <<"A", "B">>},
       subjects \in {<<>>, <<S>>, <<S, P>>},
       rooms \in {<<>>, Rooms},
       n \in 0..NumSlots,
       credits \in {<<>>} \cup {<< <<S, c>> >> : c \in 0..MaxCredits}
                   \cup {<< <<S, c>>, <<P, d>> >> : c, d \in 0..MaxCredits},
       quals \in {<<>>,
                  [t \in {"T1"} |-> {S, SLab, P}],
                  [t \in {"T1", "T2"} |-> IF t = "T1" THEN {S} ELSE {P}]},
       sizes \in {<<>>, Sizes, [c \in {"A"} |-> 20],
                  [c \in {"A", "B"} |-> IF c = "A" THEN 20 ELSE 0]}}

----------------------------------------------------------------------------
(* The scheduler as a state machine *)

NoBackup == [kind |-> "none"]
NoResponse == [kind |-> "none"]
NoCall == [op |-> "none", cls |-> "None", ret |-> "None"]
Unset == <<>>

Install(st) ==
    /\ schedule' = st.schedule
    /\ teacher_bookings' = st.teacher_bookings
    /\ class_bookings' = st.class_bookings
    /\ room_bookings' = st.room_bookings
    /\ teacher_daily_load' = st.teacher_daily_load
    /\ class_subject_time' = st.class_subject_time
    /\ teacher_schedule' = st.teacher_schedule
    /\ scheduled_counts' = st.scheduled_counts
    /\ class_priority' = st.class_priority
    /\ lab_room_bookings' = st.lab_room_bookings

\* the ten structures hold st
Holds(st) ==
    /\ schedule = st.schedule
    /\ teacher_bookings = st.teacher_bookings
    /\ class_bookings = st.class_bookings
    /\ room_bookings = st.room_bookings
    /\ teacher_daily_load = st.teacher_daily_load
    /\ class_subject_time = st.class_subject_time
    /\ teacher_schedule = st.teacher_schedule
    /\ scheduled_counts = st.scheduled_counts
    /\ class_priority = st.class_priority
    /\ lab_room_bookings = st.lab_room_bookings

Bool(b) == IF b THEN "True" ELSE "False"

\* before __init__ has run: the arguments, and no field yet
NotConstructed(p) ==
    /\ problem = p
    /\ raised = NoError
    /\ pc = "new"
    /\ subject_assignments = Unset
    /\ subject_order = Unset
    /\ schedule = Unset
    /\ teacher_bookings = Unset
    /\ class_bookings = Unset
    /\ room_bookings = Unset
    /\ teacher_daily_load = Unset
    /\ class_subject_time = Unset
    /\ teacher_schedule = Unset
    /\ scheduled_counts = Unset
    /\ class_priority = Unset
    /\ lab_room_bookings = Unset
    /\ backup_state = NoBackup
    /\ last = NoCall
    /\ unscheduled_classes = {}
    /\ progress = FALSE
    /\ iteration = 0
    /\ classes_by_priority = <<>>
    /\ response = NoResponse

\* the fields __init__ leaves when it returns
Constructed(p) ==
    /\ problem = p
    /\ raised = InitError(p)
    /\ raised = NoError
    /\ pc = "ready"
    /\ subject_assignments = setup_subject_assignments(p)
    /\ subject_order = setup_subject_order(p, subject_assignments)
    /\ Holds(EmptyState(p))
    /\ backup_state = NoBackup
    /\ last = NoCall
    /\ unscheduled_classes = {}
    /\ progress = FALSE
    /\ iteration = 0
    /\ classes_by_priority = <<>>
    /\ response = NoResponse

\* __init__
Construct ==
    /\ pc = "new"
    /\ raised' = InitError(problem)
    /\ IF raised' = NoError
       THEN /\ pc' = "ready"
            /\ subject_assignments' = setup_subject_assignments(problem)
            /\ subject_order' = setup_subject_order(problem, subject_assignments')
            /\ Install(EmptyState(problem))
       ELSE /\ pc' = "raised"
            /\ UNCHANGED <<subject_assignments, subject_order, stateVars>>
    /\ UNCHANGED <<response, problem, backup_state, last, driverVars>>

\* a call of schedule_subject
TryPlace(cls, subject, teacher, room, time_slot) ==
    /\ pc = "ready"
    /\ LET r == schedule_subject(problem, subject_assignments, Self,
                                 cls, subject, teacher, room, time_slot)
       IN /\ Install(r.st)
          /\ last' = [op |-> "schedule_subject", cls |-> cls, ret |-> Bool(r.ok)]
    /\ UNCHANGED <<response, inputVars, pc, backup_state, driverVars>>

\* a call of unschedule_subject
Unplace(cls, time_slot) ==
    /\ pc = "ready"
    /\ LET r == unschedule_subject(problem, subject_assignments, Self, cls, time_slot)
       IN /\ Install(r.st)
          /\ last' = [op |-> "unschedule_subject", cls |-> cls, ret |-> Bool(r.ok)]
    /\ UNCHANGED <<response, inputVars, pc, backup_state, driverVars>>

\* a call of resolve_conflicts_aggressive.  When it restores its own backup, a dict
\* of the client that shared the scheduler's structures is left with the dropped ones
Repair(cls, subject) ==
    /\ pc = "ready"
    /\ \E o \in resolve_conflicts_aggressive(problem, subject_assignments, Self, cls, subject) :
          /\ Install(o.st)
          /\ last' = [op |-> "resolve_conflicts_aggressive", cls |-> cls, ret |-> o.ret]
          /\ backup_state' = IF backup_state.kind = "alias" /\ o.dropped # Kept
                             THEN [kind |-> "detached", dict |-> create_backup_state(o.dropped)]
                             ELSE backup_state
    /\ UNCHANGED <<response, inputVars, pc, driverVars>>

\* a call of create_backup_state by a client that keeps the dict.  before is the state
\* at the call, kept beside the dict to compare a later restore with
CreateBackup ==
    /\ pc = "ready"
    /\ backup_state' = [kind |-> "copy", dict |-> create_backup_state(Self), before |-> Self]
    /\ last' = [op |-> "create_backup_state", cls |-> "None", ret |-> "dict"]
    /\ UNCHANGED <<response, inputVars, pc, stateVars, driverVars>>

\* what the client's dict holds: once restored, its structures are the scheduler's own
\* ("alias"), and follow the state until the scheduler drops them
BackupDict ==
    IF backup_state.kind = "alias" THEN create_backup_state(Self) ELSE backup_state.dict

\* a call of restore_backup_state with the client's dict.  undone tells whether it was
\* a fresh copy that differed from the state
RestoreBackup ==
    /\ pc = "ready"
    /\ backup_state.kind \in {"copy", "alias", "detached"}
    /\ Install(restore_backup_state(Self, BackupDict))
    /\ backup_state' = [kind |-> "alias",
                        undone |-> backup_state.kind = "copy" /\ Self # backup_state.before]
    /\ last' = [op |-> "restore_backup_state", cls |-> "None", ret |-> "None"]
    /\ UNCHANGED <<response, inputVars, pc, driverVars>>

AnyTryPlace ==
    \E cls \in ClassSet(problem), subject \in SubjectSet(problem),
       teacher \in TeacherSet(problem), room \in RoomSet(problem),
       time_slot \in SlotSet(problem) :
         TryPlace(cls, subject, teacher, room, time_slot)

AnyUnplace ==
    \E cls \in ClassSet(problem), time_slot \in SlotSet(problem) : Unplace(cls, time_slot)

AnyRepair ==
    \E cls \in ClassSet(problem) : \E subject \in KeySet(subject_assignments[cls]) :
        Repair(cls, subject)

(* Spec: any sequence of calls of the primitives and of Repair on a scheduler *)
Init == \E p \in PrimitiveProblems : Constructed(p)

Next == AnyTryPlace \/ AnyUnplace \/ AnyRepair

Spec == Init /\ [][Next]_vars

(* SpecSnapshot: the primitives and Repair, with a client that takes and restores
   snapshots *)
InitSnapshot == \E p \in SnapshotProblems : Constructed(p)

NextSnapshot == AnyTryPlace \/ AnyUnplace \/ AnyRepair \/ CreateBackup \/ RestoreBackup

SpecSnapshot == InitSnapshot /\ [][NextSnapshot]_vars

(* SpecLab: the primitives on a scheduler with two lab rooms *)
InitLab == \E p \in LabProblems : Constructed(p)

NextLab == AnyTryPlace \/ AnyUnplace

SpecLab == InitLab /\ [][NextLab]_vars

(* SpecInput: __init__ on arbitrary arguments *)
InitInput == \E p \in RawProblems \cup OrderProblems : NotConstructed(p)

NextInput == Construct

SpecInput == InitInput /\ [][NextInput]_vars

(* SpecDriver: __init__ and then generate_timetable *)

\* generate_timetable up to the while loop
Start ==
    /\ pc = "ready"
    /\ class_priority' = [cls \in ClassSet(problem) |-> 0]
    /\ unscheduled_classes' = ClassSet(problem)
    /\ progress' = TRUE
    /\ iteration' = 0
    /\ classes_by_priority' = <<>>
    /\ pc' = "while"
    /\ UNCHANGED <<response, inputVars, schedule, teacher_bookings, class_bookings, room_bookings,
                   teacher_daily_load, class_subject_time, teacher_schedule,
                   scheduled_counts, lab_room_bookings, backup_state, last>>

\* the while loop's test holds: the head of its body
BeginPass ==
    /\ pc = "while"
    /\ unscheduled_classes # {} /\ progress /\ iteration < MaxIterations
    /\ iteration' = iteration + 1
    /\ progress' = FALSE
    /\ \E sorted \in SortedByPriority(Self, unscheduled_classes) :
          classes_by_priority' = sorted
    /\ pc' = "for"
    /\ UNCHANGED <<response, inputVars, stateVars, backup_state, last, unscheduled_classes>>

\* one turn of "for cls in classes_by_priority"
VisitClass ==
    /\ pc = "for"
    /\ classes_by_priority # <<>>
    /\ LET cls == Head(classes_by_priority)
       IN \E o \in WalkSubjects(problem, subject_assignments, subject_order, Self,
                               cls, progress, 1) :
             /\ Install(o.st)
             /\ progress' = o.progress
             /\ unscheduled_classes' = IF o.exhausted THEN unscheduled_classes \ {cls}
                                       ELSE unscheduled_classes
    /\ classes_by_priority' = Tail(classes_by_priority)
    /\ UNCHANGED <<response, inputVars, pc, backup_state, last, iteration>>

\* the for loop is over: back to the while loop's test
EndPass ==
    /\ pc = "for"
    /\ classes_by_priority = <<>>
    /\ pc' = "while"
    /\ UNCHANGED <<response, inputVars, stateVars, backup_state, last, driverVars>>

\* the while loop's test fails: generate_timetable returns
Finish ==
    /\ pc = "while"
    /\ ~ (unscheduled_classes # {} /\ progress /\ iteration < MaxIterations)
    /\ pc' = "done"
    /\ UNCHANGED <<response, inputVars, stateVars, backup_state, last, driverVars>>

\* generate_timetable_response, called once generate_timetable has returned
Respond ==
    /\ pc = "done"
    /\ response' = generate_timetable_response(problem, subject_assignments, Self)
    /\ pc' = "responded"
    /\ UNCHANGED <<inputVars, stateVars, backup_state, last, driverVars>>

InitDriver == \E p \in DriverProblems \cup ScoreProblems \cup {Scenario2} : NotConstructed(p)

NextDriver == Construct \/ Start \/ BeginPass \/ VisitClass \/ EndPass \/ Finish \/ Respond

SpecDriver == InitDriver /\ [][NextDriver]_vars

\* "for cls in classes_by_priority" takes its next class
NextTurn ==
    /\ pc = "for"
    /\ classes_by_priority # <<>>
    /\ classes_by_priority' = Tail(classes_by_priority)

(* SpecDriverRuns: SpecDriver for a program that runs on.  __init__ and
   generate_timetable are sequential code: a step that can be taken is taken, and the
   for loop takes its next class (the steps of NextTurn are those of VisitClass) *)
SpecDriverRuns ==
    /\ SpecDriver
    /\ WF_vars(Construct \/ Start \/ BeginPass \/ EndPass \/ Finish)
    /\ WF_classes_by_priority(NextTurn)

----------------------------------------------------------------------------
(* Properties of the primitives, of Repair and of snapshots *)

\* the cells of the assignment map that hold an assignment
Cells == {<<c, ts>> \in ClassSet(problem) \X SlotSet(problem) : schedule[c][ts] # NoEntry}

\* C1: in every state reached by calls of schedule_subject, unschedule_subject,
\* resolve_conflicts_aggressive and restore_backup_state, no two assignments at the
\* same time slot name the same teacher, and no two name the same room
NoDoubleBooking ==
    \A x, y \in Cells :
        (x # y /\ x[2] = y[2]) =>
            /\ schedule[x[1]][x[2]].teacher # schedule[y[1]][y[2]].teacher
            /\ schedule[x[1]][x[2]].room # schedule[y[1]][y[2]].room

\* two classes are taught at the same time, and a snapshot has just been restored
TwoClassesAtOnceAfterRestore ==
    /\ last.op = "restore_backup_state"
    /\ \E x, y \in Cells : x # y /\ x[2] = y[2]

\* the number of assignments of teacher on the slots of day
DayLoad(teacher, day) ==
    Cardinality({x \in Cells : schedule[x[1]][x[2]].teacher = teacher /\ DayOf(x[2]) = day})

\* C3: in every state reached by those calls, a teacher has at most
\* teacher_max_daily_load assignments on the slots of one day
DailyLoadWithinCap ==
    \A teacher \in TeacherSet(problem), day \in DaySet(problem) :
        DayLoad(teacher, day) <= problem.teacher_max_daily_load

\* a teacher has reached the cap on a day and is free at another slot of that day
TeacherAtCapWithFreeSlot ==
    \E teacher \in TeacherSet(problem), ts \in SlotSet(problem) :
        /\ DayLoad(teacher, DayOf(ts)) = problem.teacher_max_daily_load
        /\ \A c \in ClassSet(problem) : schedule[c][ts] = NoEntry \/ schedule[c][ts].teacher # teacher

\* C6: when schedule_subject succeeds for a class at a slot, unschedule_subject for
\* that class and slot then succeeds and leaves the assignment map and every index as
\* they were before schedule_subject
PlaceThenUnplaceRestores ==
    [][(last'.op = "schedule_subject" /\ last'.ret = "True") =>
          /\ \E ts \in SlotSet(problem) : schedule'[last'.cls][ts] # schedule[last'.cls][ts]
          /\ \A ts \in SlotSet(problem) :
                schedule'[last'.cls][ts] # schedule[last'.cls][ts] =>
                    unschedule_subject(problem, subject_assignments, Self', last'.cls, ts)
                        = [ok |-> TRUE, st |-> Self]]_vars

\* schedule_subject has just succeeded, and the state holds a lab session in a lab
\* room and assignments of every class
PlacedAmongOthers ==
    /\ last.op = "schedule_subject" /\ last.ret = "True"
    /\ \E ts \in SlotSet(problem) : lab_room_bookings[ts] # {}
    /\ \A c \in ClassSet(problem) : \E ts \in SlotSet(problem) : schedule[c][ts] # NoEntry

\* C7: restore_backup_state with a dict that create_backup_state returned, after any
\* calls made since, leaves the assignment map and every index as they were when the
\* dict was made
RestoreGivesSnapshot ==
    [][(backup_state.kind = "copy" /\ backup_state'.kind = "alias") =>
          Self' = backup_state.before]_vars

\* a snapshot has been restored over a state that differed from it
SnapshotUndidChanges ==
    /\ last.op = "restore_backup_state"
    /\ backup_state.kind = "alias" /\ backup_state.undone

\* a candidate breaks a hard constraint, as the assignment map shows it
BreaksHardConstraint(cls, subject, teacher, room, time_slot) ==
    LET kind == Lookup(problem.rooms, room).type
        required == IF EndsWithLab(subject) THEN "lab"
                    ELSE Get(problem.subject_room_requirements, subject, "theory")
    IN \/ schedule[cls][time_slot] # NoEntry
       \/ \E c \in ClassSet(problem) :
              /\ schedule[c][time_slot] # NoEntry
              /\ \/ schedule[c][time_slot].teacher = teacher
                 \/ schedule[c][time_slot].room = room
       \/ subject \notin Get(problem.teacher_qualifications, teacher, {})
       \/ Lookup(problem.rooms, room).capacity < problem.class_sizes[cls]
       \/ (kind # "flex" /\ kind # required)
       \/ DayLoad(teacher, DayOf(time_slot)) >= problem.teacher_max_daily_load
       \/ /\ EndsWithLab(subject)
          /\ ~ \E ts \in SlotSet(problem) :
                  /\ schedule[cls][ts].subject = SubSeq(subject, 1, Len(subject) - 1)
                  /\ time_slot_index(problem, ts) < time_slot_index(problem, time_slot)

----------------------------------------------------------------------------
(* Properties of __init__ and of generate_timetable *)

\* __init__ has returned a scheduler
IsConstructed == pc \in {"ready", "while", "for", "done", "responded"}

\* the kind of room a subject requires: lab for a lab-subject, else the kind declared
\* for it, theory when none is
RequiredKind(subject) ==
    IF EndsWithLab(subject) THEN "lab"
    ELSE Get(problem.subject_room_requirements, subject, "theory")

\* C2: in the schedule generate_timetable leaves, the teacher of every assignment is
\* qualified for its subject, its room holds the class, and its room is of the kind
\* the subject requires or is flex
FinalAssignmentsFit ==
    pc = "done" =>
        \A x \in Cells :
            LET entry == schedule[x[1]][x[2]]
                room == Lookup(problem.rooms, entry.room)
            IN /\ entry.teacher \in DOMAIN problem.teacher_qualifications
               /\ entry.subject \in problem.teacher_qualifications[entry.teacher]
               /\ room.capacity >= problem.class_sizes[x[1]]
               /\ room.type \in {RequiredKind(entry.subject), "flex"}

\* generate_timetable has returned with a lab session, and with a session of a class
\* of more than 20 at a slot where room F, which holds 20, is free
FinalWithRoomChoices ==
    /\ pc = "done"
    /\ \E x \in Cells : EndsWithLab(schedule[x[1]][x[2]].subject)
    /\ \E x \in Cells :
           /\ problem.class_sizes[x[1]] > 20
           /\ \A c \in ClassSet(problem) :
                  schedule[c][x[2]] = NoEntry \/ schedule[c][x[2]].room # "F"

\* what the bag of a class requires of a subject
RequiredCount(cls, subject) == OGet(subject_assignments[cls], subject, 0)

\* C4: at every point of generate_timetable, the scheduled count of a subject in a
\* class, and the number of the class's cells that hold the subject, are at most what
\* the class requires of it
ScheduledWithinRequired ==
    IsConstructed =>
        \A cls \in ClassSet(problem), subject \in SubjectSet(problem) :
            /\ scheduled_counts[cls][subject] <= RequiredCount(cls, subject)
            /\ Cardinality({ts \in SlotSet(problem) : schedule[cls][ts].subject = subject})
                   <= RequiredCount(cls, subject)

\* generate_timetable has returned with a subject of a class fully scheduled and a
\* cell of the class still empty
FinalFullSubjectFreeCell ==
    /\ pc = "done"
    /\ \E cls \in ClassSet(problem) :
           /\ \E subject \in KeySet(subject_assignments[cls]) :
                  scheduled_counts[cls][subject] = RequiredCount(cls, subject)
           /\ \E ts \in SlotSet(problem) : schedule[cls][ts] = NoEntry

\* the position of a slot in time_slots
SlotPosition(time_slot) ==
    CHOOSE i \in 1..Len(problem.time_slots) : problem.time_slots[i] = time_slot

\* C5: in the schedule generate_timetable leaves, a class that has a lab-subject at a
\* slot has the base subject at an earlier slot
FinalLabAfterTheory ==
    pc = "done" =>
        \A x \in Cells :
            LET subject == schedule[x[1]][x[2]].subject
            IN EndsWithLab(subject) =>
                   \E ts \in SlotSet(problem) :
                       /\ schedule[x[1]][ts].subject = SubSeq(subject, 1, Len(subject) - 1)
                       /\ SlotPosition(ts) < SlotPosition(x[2])

\* generate_timetable has returned with a lab session that is not in the last slot
FinalWithEarlyLab ==
    /\ pc = "done"
    /\ \E x \in Cells :
           /\ EndsWithLab(schedule[x[1]][x[2]].subject)
           /\ SlotPosition(x[2]) < Len(problem.time_slots)

\* the sessions a bag holds for a subject
Sessions(bag, subject) ==
    SumSeq([i \in 1..Len(bag) |-> IF bag[i][1] = subject THEN bag[i][2] ELSE 0])

\* C9: the bag of every class holds, for a subject of c credits, nothing when c = 0,
\* c sessions and no lab-subject when c is 1 or 2, c sessions and one session of its
\* lab-subject when c >= 3, and nothing else; and no assignment ever names a subject
\* of no credits or its lab-subject
BagFollowsCredits ==
    IsConstructed =>
        \A cls \in ClassSet(problem) :
            LET bag == subject_assignments[cls]
                credits == problem.subject_credits
            IN /\ \A i \in 1..Len(credits) :
                      LET subject == credits[i][1]
                          lab == subject \o <<"Lab">>
                          c == credits[i][2]
                      IN /\ c = 0 => subject \notin KeySet(bag) /\ lab \notin KeySet(bag)
                         /\ c \in 1..2 => Sessions(bag, subject) = c /\ lab \notin KeySet(bag)
                         /\ c >= 3 => Sessions(bag, subject) = c /\ Sessions(bag, lab) = 1
                         /\ c = 0 => \A ts \in SlotSet(problem) :
                                         schedule[cls][ts].subject \notin {subject, lab}
               /\ \A j \in 1..Len(bag) :
                      /\ \E i \in 1..Len(credits) :
                             bag[j][1] \in {credits[i][1], credits[i][1] \o <<"Lab">>}
                      /\ \A k \in 1..Len(bag) : bag[k][1] = bag[j][1] => k = j

\* generate_timetable has returned a schedule that is not empty, for a problem with a
\* subject of no credits
FinalWithZeroCredit ==
    /\ pc = "done"
    /\ \E i \in 1..Len(problem.subject_credits) : problem.subject_credits[i][2] = 0
    /\ Cells # {}

\* the sessions all classes require, counted from the credits
SessionsOfCredits ==
    Len(problem.classes)
    * SumSeq([i \in 1..Len(problem.subject_credits) |->
                 LET c == problem.subject_credits[i][2]
                 IN IF c <= 0 THEN 0 ELSE IF c >= 3 THEN c + 1 ELSE c])

\* an inventory is empty, or a class has no size or a size that is not positive
BadInventory ==
    \/ problem.teachers = <<>> \/ problem.classes = <<>> \/ problem.subjects = <<>>
    \/ problem.rooms = <<>> \/ problem.time_slots = <<>>
    \/ \E i \in 1..Len(problem.classes) :
           \/ problem.classes[i] \notin DOMAIN problem.class_sizes
           \/ problem.class_sizes[problem.classes[i]] <= 0

\* C10: __init__ raises, and leaves no scheduling state, when an inventory is empty,
\* a class has no size or a size <= 0, or the sessions required are more than
\* len(teachers) * len(time_slots); when they are exactly that many it does not raise
\* for capacity
InitRejectsBadInput ==
    pc # "new" =>
        LET capacity == Len(problem.teachers) * Len(problem.time_slots)
        IN /\ (BadInventory \/ SessionsOfCredits > capacity) =>
                  /\ pc = "raised" /\ raised # NoError
                  /\ \A i \in 1..Len(stateVars) : stateVars[i] = Unset
           /\ (~ BadInventory /\ SessionsOfCredits = capacity) =>
                  raised # "Insufficient teacher capacity"

\* __init__ has raised for capacity, the sessions required being one too many
RaisedForOneTooMany ==
    /\ pc = "raised" /\ raised = "Insufficient teacher capacity"
    /\ SessionsOfCredits = Len(problem.teachers) * Len(problem.time_slots) + 1

\* no teacher of the faculty is qualified for the subject
Uncovered(subject) ==
    \A i \in 1..Len(problem.teachers) :
        subject \notin Get(problem.teacher_qualifications, problem.teachers[i], {})

\* a subject of the expanded bag, a subject with credits > 0 or the lab-subject of one
\* with credits >= 3, has no qualified teacher
UncoveredInBag ==
    \E i \in 1..Len(problem.subject_credits) :
        LET subject == problem.subject_credits[i][1]
            c == problem.subject_credits[i][2]
        IN \/ c > 0 /\ Uncovered(subject)
           \/ c >= 3 /\ Uncovered(subject \o <<"Lab">>)

\* C11: once the inventories and class sizes are accepted, __init__ raises for want
\* of a qualified teacher exactly when a subject of the expanded bag has none; a
\* subject outside the bag without a teacher does not make it raise
CoverageErrorIffBagUncovered ==
    (pc # "new" /\ ~ BadInventory) =>
        (raised = "No qualified teachers available" <=> UncoveredInBag)

\* subject_credits or subject_prerequisites names a subject that is not in subjects
UnknownSubjectReference ==
    \/ \E i \in 1..Len(problem.subject_credits) :
           problem.subject_credits[i][1] \notin Range(problem.subjects)
    \/ \E s \in DOMAIN problem.subject_prerequisites :
           \/ s \notin Range(problem.subjects)
           \/ \E j \in 1..Len(problem.subject_prerequisites[s]) :
                  problem.subject_prerequisites[s][j] \notin Range(problem.subjects)

\* C12: __init__ raises for a problem with an unknown subject reference, so that no
\* bag ever holds a session of a subject that is not in subjects
UnknownSubjectRejected ==
    (pc # "new" /\ UnknownSubjectReference) =>
        /\ pc = "raised" /\ raised # NoError
        /\ subject_assignments = Unset

\* the cells of the response that hold an assignment
ResponseCells ==
    {x \in ClassSet(problem) \X SlotSet(problem) : response.schedule[x[1]][x[2]] # Null}

\* C13: the response built after generate_timetable has an entry for every class and
\* time slot, the state's assignment of the cell or None when it has none;
\* total_scheduled is the number of entries that are not None, total_required the sum
\* of the required counts, and a teacher's total_sessions the number of entries that
\* name the teacher
ResponseProjectsState ==
    pc = "responded" =>
        /\ DOMAIN response.schedule = Range(problem.classes)
        /\ \A cls \in Range(problem.classes) :
               /\ DOMAIN response.schedule[cls] = Range(problem.time_slots)
               /\ \A ts \in Range(problem.time_slots) :
                      IF schedule[cls][ts] = NoEntry
                      THEN response.schedule[cls][ts] = Null
                      ELSE response.schedule[cls][ts] = schedule[cls][ts]
        /\ response.statistics.total_scheduled = Cardinality(ResponseCells)
        /\ response.statistics.total_required =
               SumSeq([i \in 1..Len(problem.classes) |->
                          SumSeq([j \in 1..Len(subject_assignments[problem.classes[i]]) |->
                                     subject_assignments[problem.classes[i]][j][2]])])
        /\ \A i \in 1..Len(problem.teachers) :
               /\ response.statistics.teacher_utilization[i].name = problem.teachers[i]
               /\ response.statistics.teacher_utilization[i].total_sessions =
                      Cardinality({x \in ResponseCells :
                          response.schedule[x[1]][x[2]].teacher = problem.teachers[i]})

\* a response has been built from a schedule with assignments of two teachers and an
\* empty cell
ResponseWithGaps ==
    /\ pc = "responded"
    /\ \E x, y \in ResponseCells :
           response.schedule[x[1]][x[2]].teacher # response.schedule[y[1]][y[2]].teacher
    /\ \E cls \in ClassSet(problem), ts \in SlotSet(problem) : response.schedule[cls][ts] = Null

\* the number of cells of the class that hold the subject
Placed(cls, subject) ==
    Cardinality({ts \in SlotSet(problem) : schedule[cls][ts].subject = subject})

\* the schedule breaks qualification, capacity, one class per teacher and slot, or
\* theory before lab
ScheduleViolation ==
    \/ \E x \in Cells :
           LET entry == schedule[x[1]][x[2]]
           IN \/ entry.subject \notin Get(problem.teacher_qualifications, entry.teacher, {})
              \/ Lookup(problem.rooms, entry.room).capacity < problem.class_sizes[x[1]]
              \/ /\ EndsWithLab(entry.subject)
                 /\ ~ \E ts \in SlotSet(problem) :
                         /\ schedule[x[1]][ts].subject
                                = SubSeq(entry.subject, 1, Len(entry.subject) - 1)
                         /\ SlotPosition(ts) < SlotPosition(x[2])
    \/ \E x, y \in Cells :
           /\ x # y /\ x[2] = y[2]
           /\ schedule[x[1]][x[2]].teacher = schedule[y[1]][y[2]].teacher

\* C14: after generate_timetable, verify_constraints returns the one marker exactly
\* when every class holds every subject of its bag as often as required and the
\* schedule breaks no constraint; and for every subject a class holds less often than
\* required, it returns an entry for that class and subject
VerifierReportsShortfalls ==
    pc = "responded" =>
        /\ response.constraints = <<Satisfied>> <=>
               /\ \A cls \in ClassSet(problem) :
                      \A subject \in KeySet(subject_assignments[cls]) :
                          Placed(cls, subject) = RequiredCount(cls, subject)
               /\ ~ ScheduleViolation
        /\ \A cls \in ClassSet(problem) :
               \A subject \in KeySet(subject_assignments[cls]) :
                   Placed(cls, subject) < RequiredCount(cls, subject) =>
                       \E i \in 1..Len(response.constraints) :
                           /\ response.constraints[i].kind = "count"
                           /\ response.constraints[i].cls = cls
                           /\ response.constraints[i].subject = subject
                           /\ response.constraints[i].scheduled = Placed(cls, subject)
                           /\ response.constraints[i].required = RequiredCount(cls, subject)

\* a response reports a subject that a class holds less often than required, beside
\* a subject that is fully scheduled
ResponseWithShortfall ==
    /\ pc = "responded"
    /\ \E cls \in ClassSet(problem) :
           \E s1, s2 \in KeySet(subject_assignments[cls]) :
               /\ Placed(cls, s1) < RequiredCount(cls, s1)
               /\ Placed(cls, s2) = RequiredCount(cls, s2)

\* a response holds the marker alone
ResponseSatisfied == pc = "responded" /\ response.constraints = <<Satisfied>> /\ Cells # {}

\* C15: for Scenario2 a timetable is returned, and it has S Lab at Mon-2 and S at Mon-1
\* for class C
Scenario2LabAtMon2 ==
    (problem = Scenario2 /\ pc # "new") =>
        /\ pc # "raised"
        /\ pc \in {"done", "responded"} =>
               /\ schedule["C"][<<"Mon", "2">>].subject = <<"S", "Lab">>
               /\ schedule["C"][<<"Mon", "1">>].subject = <<"S">>

\* C16: with consecutive_preferred false, the scores generate_timetable's search gives
\* have no part for consecutive sessions: two candidates for a class, subject and
\* teacher in the same room and on the same day, which differ only in how far they
\* are from the sessions the class has of the subject, get the same score (the
\* subjects are those the class still lacks sessions of)
NoConsecutivePartWhenNotPreferred ==
    (pc \in {"while", "for", "done"} /\ ~ problem.consecutive_preferred) =>
        \A cls \in ClassSet(problem) :
            \A subject \in {sub \in KeySet(subject_assignments[cls]) :
                               scheduled_counts[cls][sub] < RequiredCount(cls, sub)} :
                \A teacher \in Range(get_qualified_teachers(problem, Self, subject)) :
                    \A c1, c2 \in Range(CallerCandidates(problem, subject_assignments, Self,
                                                         cls, subject, teacher)) :
                        (c1.room = c2.room /\ c1.time_slot[1] = c2.time_slot[1]) =>
                            c1.score = c2.score

\* every hard constraint of a candidate but the kind of its room
OtherConstraintsMet(cls, subject, teacher, room, time_slot) ==
    /\ ~ Booked(Self, cls, teacher, room, time_slot)
    /\ Qualified(problem, subject, teacher)
    /\ ~ (problem.class_sizes[cls] > RoomInfo(problem, room).capacity)
    /\ ~ DailyLoadReached(problem, Self, teacher, time_slot)
    /\ LabPrerequisiteMet(problem, Self, cls, subject, time_slot)

\* C17: whatever subject_room_requirements declares, a try-place of a lab-subject
\* that meets every other hard constraint is accepted in a lab room and in a flex
\* room and refused in a theory room
LabSubjectNeedsLabKind ==
    pc \in {"while", "for", "done"} =>
        \A cls \in ClassSet(problem), teacher \in TeacherSet(problem),
           room \in RoomSet(problem), time_slot \in SlotSet(problem) :
            \A subject \in {sub \in SubjectSet(problem) : EndsWithLab(sub)} :
                OtherConstraintsMet(cls, subject, teacher, room, time_slot) =>
                    (schedule_subject(problem, subject_assignments, Self,
                                      cls, subject, teacher, room, time_slot).ok
                        <=> RoomInfo(problem, room).type \in {"lab", "flex"})

\* the subjects of its bag a class still lacks sessions of
UnderScheduled(cls) ==
    {subject \in KeySet(subject_assignments[cls]) :
        scheduled_counts[cls][subject] < RequiredCount(cls, subject)}

\* C18: when generate_timetable has ended, a class that still lacks sessions of a
\* subject has no admissible candidate for it: no qualified teacher, time slot and
\* suitable room pass the hard-constraint check in the final state
DriverStopsOnlyWhenStuck ==
    pc = "done" =>
        \A cls \in ClassSet(problem) :
            \A subject \in UnderScheduled(cls) :
                \A teacher \in Range(get_qualified_teachers(problem, Self, subject)) :
                    CallerCandidates(problem, subject_assignments, Self,
                                     cls, subject, teacher) = <<>>

\* the highest score among candidates
MaxScore(cands) ==
    CHOOSE m \in {cands[i].score : i \in 1..Len(cands)} :
        \A i \in 1..Len(cands) : cands[i].score <= m

\* C19: in every state of a run of the driver, the search for a class, a subject it
\* still lacks and a qualified teacher returns an admissible slot and room with the
\* highest score among the admissible candidates, and returns nothing only when
\* there is no admissible candidate
SearchReturnsBestAdmissible ==
    pc \in {"while", "for", "done"} =>
        \A cls \in ClassSet(problem) :
            \A subject \in UnderScheduled(cls) :
                \A teacher \in Range(get_qualified_teachers(problem, Self, subject)) :
                    LET cands == CallerCandidates(problem, subject_assignments, Self,
                                                  cls, subject, teacher)
                        found == FoundSlots(problem, subject_assignments, Self,
                                            cls, subject, teacher, DefaultPreferConsecutive)
                    IN IF cands = <<>>
                       THEN found = {NotFound}
                       ELSE \A slot_info \in found :
                               /\ slot_info # NotFound
                               /\ \E i \in 1..Len(cands) :
                                      /\ cands[i].time_slot = slot_info.time_slot
                                      /\ cands[i].room = slot_info.room
                                      /\ cands[i].score = MaxScore(cands)

\* C20: the progress of every class lies between 0 and 1
ClassPriorityWithinUnit ==
    IsConstructed =>
        \A cls \in ClassSet(problem) :
            /\ 0 <= class_priority[cls]
            /\ class_priority[cls] <= PriorityDen(subject_assignments, cls)

\* C21: in every state that calls of schedule_subject, unschedule_subject and
\* resolve_conflicts_aggressive reach, a class that has a lab-subject at a slot has
\* the base subject at an earlier slot
LabAlwaysAfterTheory ==
    pc = "ready" =>
        \A x \in Cells :
            LET subject == schedule[x[1]][x[2]].subject
            IN EndsWithLab(subject) =>
                   \E ts \in SlotSet(problem) :
                       /\ schedule[x[1]][ts].subject = BaseSubject(subject)
                       /\ SlotPosition(ts) < SlotPosition(x[2])

\* C22: schedule_subject refuses a subject of which the class already has its
\* required count, or requires none, so that whatever calls are made the scheduled
\* count of a subject in a class stays within the required count
TryPlaceKeepsWithinRequired ==
    pc = "ready" =>
        \A cls \in ClassSet(problem), subject \in SubjectSet(problem) :
            /\ scheduled_counts[cls][subject] <= RequiredCount(cls, subject)
            /\ scheduled_counts[cls][subject] = RequiredCount(cls, subject) =>
                   \A teacher \in TeacherSet(problem), room \in RoomSet(problem),
                      time_slot \in SlotSet(problem) :
                       ~ schedule_subject(problem, subject_assignments, Self,
                                          cls, subject, teacher, room, time_slot).ok

\* C23: schedule_subject refuses a lab-subject in a lab room at a slot where
\* lab_room_bookings already holds a lab room
TryPlaceRefusesSecondLab ==
    pc = "ready" =>
        \A cls \in ClassSet(problem), teacher \in TeacherSet(problem),
           room \in RoomSet(problem), time_slot \in SlotSet(problem) :
            \A subject \in {sub \in SubjectSet(problem) : EndsWithLab(sub)} :
                (RoomInfo(problem, room).type = "lab" /\ lab_room_bookings[time_slot] # {}) =>
                    ~ schedule_subject(problem, subject_assignments, Self,
                                       cls, subject, teacher, room, time_slot).ok

\* C24: generate_timetable ends after a pass without progress, with a class lacking
\* sessions, only once resolve_conflicts_aggressive has failed for the class and
\* subject: as a failed call leaves the state as it was, in the final state the call
\* can return False for a subject some class lacks
DriverStopsAfterFailedRepair ==
    (pc = "done" /\ ~ progress /\ \E cls \in ClassSet(problem) : UnderScheduled(cls) # {}) =>
        \E cls \in ClassSet(problem) : \E subject \in UnderScheduled(cls) :
            \E o \in resolve_conflicts_aggressive(problem, subject_assignments, Self,
                                                  cls, subject) :
                o.ret = "False"

\* C25: a call of resolve_conflicts_aggressive that returns False leaves the assignment
\* map and every index as they were at the call; one that returns True leaves the
\* scheduled count of one subject of the class one higher and every other count as
\* it was
RepairAllOrNothing ==
    [][last'.op = "resolve_conflicts_aggressive" =>
          /\ last'.ret = "False" => Self' = Self
          /\ last'.ret = "True" =>
                 \E subject \in KeySet(subject_assignments[last'.cls]) :
                     scheduled_counts' =
                         [scheduled_counts EXCEPT ![last'.cls][subject] = @ + 1]]_vars

\* resolve_conflicts_aggressive has just returned True, which it does only once it
\* has moved an assignment of the class, and another class holds an assignment
RepairMovedAndPlaced ==
    /\ last.op = "resolve_conflicts_aggressive" /\ last.ret = "True"
    /\ \E c \in ClassSet(problem) : c # last.cls /\ \E ts \in SlotSet(problem) : schedule[c][ts] # NoEntry

\* C26: while generate_timetable runs and once it has ended, a class that is no longer
\* in unscheduled_classes has every subject of its bag scheduled as often as required
OnlyFullClassesRemoved ==
    pc \in {"while", "for", "done"} =>
        \A cls \in ClassSet(problem) \ unscheduled_classes : UnderScheduled(cls) = {}

\* C27: in a turn of the for loop over the classes, a subject of the class gets a
\* session only if no subject before it in subject_order is short of its required
\* count
OnlyFirstLackingSubjectPlaced ==
    [][(pc = "for" /\ classes_by_priority # <<>>) =>
          LET cls == Head(classes_by_priority)
              order == subject_order[cls]
          IN \A k \in 1..Len(order) :
                 scheduled_counts'[cls][order[k]] > scheduled_counts[cls][order[k]] =>
                     \A j \in 1..(k - 1) : order[j] \notin UnderScheduled(cls)]_vars

\* the edges of the dependency graph of a bag: a declared prerequisite before its
\* subject, a subject before its lab-subject
DependencyEdges(bag) ==
    {e \in Range(bag) \X Range(bag) :
        \/ /\ ~ EndsWithLab(e[2])
           /\ e[1] \in Range(Get(problem.subject_prerequisites, e[2], <<>>))
        \/ /\ EndsWithLab(e[2])
           /\ e[1] = BaseSubject(e[2])}

\* the subjects that the edges lead to from a subject, in one step or more
ReachedFrom(edges, subject) ==
    LET Step(X) == X \cup {e[2] : e \in {d \in edges : d[1] \in X}}
        RECURSIVE Grow(_)
        Grow(X) == IF Step(X) = X THEN X ELSE Grow(Step(X))
    IN Grow({e[2] : e \in {d \in edges : d[1] = subject}})

Acyclic(bag) ==
    \A subject \in Range(bag) : subject \notin ReachedFrom(DependencyEdges(bag), subject)

\* the position of a subject in an order
OrderPosition(order, subject) == CHOOSE i \in 1..Len(order) : order[i] = subject

\* C28: the order __init__ gives a class lists each subject of its bag once; when the
\* dependency graph has no cycle, a declared prerequisite comes before its subject and
\* a subject before its lab-subject; when it has a cycle, the order is the bag's own
OrderFollowsDependencies ==
    pc = "ready" =>
        \A cls \in ClassSet(problem) :
            LET bag == Keys(subject_assignments[cls])
                order == subject_order[cls]
            IN /\ Len(order) = Len(bag)
               /\ Range(order) = Range(bag)
               /\ IF Acyclic(bag)
                  THEN \A e \in DependencyEdges(bag) :
                           OrderPosition(order, e[1]) < OrderPosition(order, e[2])
                  ELSE order = bag

\* __init__ has returned with an order that is not the bag's own, for a class with a
\* lab-subject whose base subject has no prerequisite
ReorderedWithFreeLab ==
    /\ pc = "ready"
    /\ \E cls \in ClassSet(problem) :
           /\ subject_order[cls] # Keys(subject_assignments[cls])
           /\ \E subject \in KeySet(subject_assignments[cls]) :
                  /\ EndsWithLab(subject)
                  /\ Get(problem.subject_prerequisites, BaseSubject(subject), <<>>) = <<>>

\* the slots at which a class has a subject
SlotsOf(cls, subject) ==
    {ts \in SlotSet(problem) : schedule[cls][ts] # NoEntry /\ schedule[cls][ts].subject = subject}

\* C29: in every state reached by calls of schedule_subject, unschedule_subject,
\* resolve_conflicts_aggressive and restore_backup_state, each index is what the
\* assignment map gives: the bookings of a teacher, a class and a room are the slots of
\* the assignments that name them, the daily load of a teacher is the number of its
\* assignments that day, class_subject_time lists the slots at which the class has the
\* subject, scheduled_counts is their number, class_priority is the sum of the ratios
\* scheduled / required, and lab_room_bookings holds at a slot the lab rooms in which
\* a lab-subject is held
IndexesFollowAssignments ==
    /\ \A teacher \in TeacherSet(problem) :
          /\ teacher_bookings[teacher]
                 = {x[2] : x \in {y \in Cells : schedule[y[1]][y[2]].teacher = teacher}}
          /\ \A day \in DaySet(problem) :
                 teacher_daily_load[teacher][day] = DayLoad(teacher, day)
    /\ \A room \in RoomSet(problem) :
          room_bookings[room]
              = {x[2] : x \in {y \in Cells : schedule[y[1]][y[2]].room = room}}
    /\ \A cls \in ClassSet(problem) :
          /\ class_bookings[cls] = {ts \in SlotSet(problem) : schedule[cls][ts] # NoEntry}
          /\ class_priority[cls] = ClassProgress(subject_assignments, scheduled_counts, cls)
          /\ \A subject \in SubjectSet(problem) :
                 /\ Range(class_subject_time[cls][subject]) = SlotsOf(cls, subject)
                 /\ Len(class_subject_time[cls][subject]) = Cardinality(SlotsOf(cls, subject))
                 /\ scheduled_counts[cls][subject] = Cardinality(SlotsOf(cls, subject))
    /\ \A ts \in SlotSet(problem) :
          lab_room_bookings[ts]
              = {room \in RoomSet(problem) :
                    /\ RoomInfo(problem, room).type = "lab"
                    /\ \E cls \in ClassSet(problem) :
                           /\ schedule[cls][ts].room = room
                           /\ EndsWithLab(schedule[cls][ts].subject)}

\* a snapshot with a lab session in it has just been restored over a state that
\* differed from it
RestoredWithLab ==
    /\ last.op = "restore_backup_state"
    /\ backup_state.kind = "alias" /\ backup_state.undone
    /\ \E ts \in SlotSet(problem) : lab_room_bookings[ts] # {}

\* the number of assignments in the assignment map
TotalScheduled == Cardinality(Cells)

\* C30: generate_timetable ends; while it runs and once it has ended, it has made at
\* most one pass more than it has placed sessions, a pass that is followed by another
\* has placed one, and the number of passes is at most the number of required sessions
\* plus one and at most 1000
DriverTerminatesWithinBound ==
    /\ <>(pc \in {"raised", "done"})
    /\ [](pc \in {"while", "for", "done"} =>
             /\ iteration <= TotalScheduled + 1
             /\ (pc = "for" /\ iteration >= 2) => iteration - 1 <= TotalScheduled
             /\ (pc = "while" /\ progress) => iteration <= TotalScheduled
             /\ TotalScheduled <= TotalRequired(problem, subject_assignments)
             /\ iteration <= TotalRequired(problem, subject_assignments) + 1
             /\ iteration <= MaxIterations)

\* generate_timetable has ended after as many passes as there are required sessions
\* and one more, and there were three sessions or more
DriverUsedEveryPass ==
    /\ pc = "done"
    /\ iteration = TotalRequired(problem, subject_assignments) + 1
    /\ iteration >= 4

\* C31: a call of schedule_subject, of unschedule_subject or of
\* resolve_conflicts_aggressive for a class, whatever it returns, leaves every cell of
\* every other class as it was
OtherClassesUntouched ==
    [][last'.op \in {"schedule_subject", "unschedule_subject",
                     "resolve_conflicts_aggressive"} =>
          \A cls \in ClassSet(problem) \ {last'.cls} :
              \A ts \in SlotSet(problem) : schedule'[cls][ts] = schedule[cls][ts]]_vars

\* resolve_conflicts_aggressive has just returned False for a class that holds an
\* assignment, and another class holds one too
RepairFailedBesideOthers ==
    /\ last.op = "resolve_conflicts_aggressive" /\ last.ret = "False"
    /\ \E ts \in SlotSet(problem) : schedule[last.cls][ts] # NoEntry
    /\ \E cls \in ClassSet(problem) \ {last.cls} :
           \E ts \in SlotSet(problem) : schedule[cls][ts] # NoEntry

====
